---- MODULE Spec2Model ----
(***************************************************************************)
(* Model of the resumable batch engine of tiktok_transcriber:              *)
(*   cli.py        TikTokTranscriber.process_url / process_batch, main     *)
(*   progress.py   ProgressTracker (load, save, mark_*, get_pending_urls,  *)
(*                 cleanup)                                                *)
(*   downloader.py TikTokDownloader.download_audio (retry loop), cleanup   *)
(* One behaviour is a sequence of processes (runs of main) on one input    *)
(* list, sharing the checkpoint file.  A process can be killed at any      *)
(* step, SIGINT can arrive at any step, and the checkpoint file can be     *)
(* damaged between two processes.                                          *)
(***************************************************************************)
EXTENDS Naturals, Sequences, FiniteSets

\* ------------------------------------------------------------------ bounds
MaxLen == 2

\* The URLs the input file may hold, and the input lists (main exits on an
\* empty list, cli.py 195-197).
URLS == {"A", "B"}

\* The URLs are interchangeable, so the first one is "A".
InputLists == {l \in UNION {[1..n -> URLS] : n \in 1..MaxLen} : l[1] = "A"}

\* TikTokDownloader.__init__ default
max_retries == 3

VARIABLES
    urls,            \* the URL list read from the input file (same for every run)
    resume,          \* args.resume of the running process
    pc,              \* position of the running process; "idle": no process
    processed_urls,  \* ProgressTracker.processed_urls
    results,         \* ProgressTracker.results
    failed_urls,     \* ProgressTracker.failed_urls
    interrupted,     \* TikTokTranscriber._interrupted
    urls_to_process, \* process_batch local
    pos,             \* position in urls of each element of urls_to_process
    idx,             \* number of items of urls_to_process started so far
    result,          \* process_url local: the item's result record
    attempt,         \* download_audio loop variable
    sleeps,          \* the time.sleep delays of the current download_audio call
    tried,           \* the outcomes of the attempts of the current download_audio call
    audio,           \* the URLs whose audio file is in output_dir
    disk,            \* content of the checkpoint file (progress_file)
    tmp,             \* content of progress_file + ".tmp"
    loaded,          \* process_batch took the "resume and load()" branch
    ret,             \* value returned by process_batch
    exc,             \* where the exception that ended the process was raised
    prev             \* how the previous process ended

vars == <<urls, resume, pc, processed_urls, results, failed_urls, interrupted,
          urls_to_process, pos, idx, result, attempt, sleeps, tried, audio, disk, tmp,
          loaded, ret, exc, prev>>

\* ----------------------------------------------------------------- helpers
Range(s) == {s[k] : k \in 1..Len(s)}

EmptyMap == [u \in {} |-> ""]

NoResult == [url |-> "", status |-> "none", error |-> ""]

Absent == [kind |-> "absent"]

\* A file being written: opened with "w" (truncated), not completely written.
Partial == [kind |-> "partial"]

\* list(self.processed_urls): the set in some order
SetToList(S) == CHOOSE s \in [1..Cardinality(S) -> S] : Range(s) = S

\* The JSON document save() dumps (the timestamp is never read back).
CheckpointData ==
    [kind |-> "state",
     processed |-> SetToList(processed_urls),
     results |-> results,
     failed |-> failed_urls]

\* Kinds of checkpoint file that open() cannot read or json.load rejects.
Unloadable == {"garbage", "partial"}

\* ProgressTracker.get_pending_urls
get_pending_urls(all_urls, done) == SelectSeq(all_urls, LAMBDA u : u \notin done)

\* The positions in all_urls of the elements get_pending_urls keeps.
PendingPos(all_urls, done) ==
    SelectSeq([k \in 1..Len(all_urls) |-> k], LAMBDA k : all_urls[k] \notin done)

\* ProgressTracker.get_stats
get_stats ==
    [processed |-> Cardinality(processed_urls),
     successful |-> Cardinality({k \in 1..Len(results) : results[k].status = "success"}),
     failed |-> Cardinality(DOMAIN failed_urls)]

\* What is remembered of the previous process: how it ended ("complete":
\* process_batch returned with every item of urls_to_process done;
\* "killed_after_save": killed at the top of the loop, right after the save
\* of the item at position i of urls), the processed set it had, and the
\* sequence process_batch returned.
\* It is remembered until the next process has decided what to process, and
\* forgotten when the checkpoint file is replaced in between.
NoPrev == [end |-> "other", i |-> 0, processed |-> {}, ret |-> <<>>]

\* The memory of a process that does not exist (pc = "idle").
NoProcess ==
    /\ resume' = FALSE
    /\ processed_urls' = {}
    /\ results' = <<>>
    /\ failed_urls' = EmptyMap
    /\ interrupted' = FALSE
    /\ urls_to_process' = <<>>
    /\ pos' = <<>>
    /\ idx' = 0
    /\ result' = NoResult
    /\ attempt' = 0
    /\ sleeps' = <<>>
    /\ tried' = <<>>
    /\ audio' = {}
    /\ loaded' = FALSE
    /\ ret' = <<>>
    /\ exc' = "none"

Init ==
    /\ urls \in InputLists
    /\ pc = "idle"
    /\ resume = FALSE
    /\ processed_urls = {}
    /\ results = <<>>
    /\ failed_urls = EmptyMap
    /\ interrupted = FALSE
    /\ urls_to_process = <<>>
    /\ pos = <<>>
    /\ idx = 0
    /\ result = NoResult
    /\ attempt = 0
    /\ sleeps = <<>>
    /\ tried = <<>>
    /\ audio = {}
    /\ disk = Absent
    /\ tmp = Absent
    /\ loaded = FALSE
    /\ ret = <<>>
    /\ exc = "none"
    /\ prev = NoPrev

\* ------------------------------------------------------------ main, start
\* main up to the first statement of process_batch: a new TikTokTranscriber
\* (empty ProgressTracker, _interrupted = False), setup_signal_handler.
StartRun ==
    /\ pc = "idle"
    /\ \E r \in BOOLEAN : resume' = r
    /\ pc' = "load"
    /\ UNCHANGED <<urls, processed_urls, results, failed_urls, interrupted,
                   urls_to_process, pos, idx, result, attempt, sleeps, tried, audio,
                   disk, tmp, loaded, ret, exc, prev>>

\* The checkpoint file is damaged or replaced while no process runs:
\* not readable or not JSON ("garbage"), or JSON that is not an object with
\* the expected fields ("badshape", e.g. a JSON list).
Tamper ==
    /\ pc = "idle"
    /\ \E k \in {"garbage", "badshape"} :
          /\ disk.kind # k
          /\ disk' = [kind |-> k]
    /\ prev' = NoPrev
    /\ UNCHANGED <<urls, resume, pc, processed_urls, results, failed_urls,
                   interrupted, urls_to_process, pos, idx, result, attempt,
                   sleeps, tried, audio, tmp, loaded, ret, exc>>

\* ----------------------------------------------------------- process_batch
\* The end of process_batch's first part (cli.py 95-99): an empty list of
\* URLs to process returns at once, otherwise the loop starts.
Begin(todo, where) ==
    /\ urls_to_process' = todo
    /\ pos' = where
    /\ idx' = 0
    /\ IF todo = <<>>
          THEN /\ pc' = "returned"
               /\ ret' = results'
          ELSE /\ pc' = "loop"
               /\ ret' = ret

\* load with the bug of not restoring the results.
LoadStateWithoutResults ==
    /\ disk.kind = "state"
    /\ processed_urls' = Range(disk.processed)
    /\ results' = <<>>
    /\ failed_urls' = disk.failed

\* ProgressTracker.load on a checkpoint it can read: the three fields of the
\* document become the tracker's state.
LoadState ==
    /\ disk.kind = "state"
    /\ processed_urls' = Range(disk.processed)
    /\ results' = disk.results
    /\ failed_urls' = disk.failed

\* process_batch with the bug of reading the checkpoint without resume.
LoadSkipConsultingCheckpoint ==
    /\ pc = "load"
    /\ ~resume
    /\ loaded' = FALSE
    /\ IF disk.kind = "state"
          THEN LoadState
          ELSE UNCHANGED <<processed_urls, results, failed_urls>>
    /\ UNCHANGED <<urls, resume, interrupted, result, attempt, sleeps, tried,
                   audio, disk, tmp, exc, prev>>
    /\ Begin(urls, [k \in 1..Len(urls) |-> k])

\* cli.py 87-99 with resume = False: load() is not called.
LoadSkip ==
    /\ pc = "load"
    /\ ~resume
    /\ loaded' = FALSE
    /\ UNCHANGED <<urls, resume, processed_urls, results, failed_urls,
                   interrupted, result, attempt, sleeps, tried, audio, disk, tmp,
                   exc, prev>>
    /\ Begin(urls, [k \in 1..Len(urls) |-> k])

\* resume, and load() returns False: no file, or JSONDecodeError / IOError.
LoadFalse ==
    /\ pc = "load"
    /\ resume
    /\ disk.kind \in {"absent"} \cup Unloadable
    /\ loaded' = FALSE
    /\ UNCHANGED <<urls, resume, processed_urls, results, failed_urls,
                   interrupted, result, attempt, sleeps, tried, audio, disk, tmp,
                   exc, prev>>
    /\ Begin(urls, [k \in 1..Len(urls) |-> k])

\* resume, and load() returns True.
LoadTrue ==
    /\ pc = "load"
    /\ resume
    /\ LoadState
    /\ loaded' = TRUE
    /\ Begin(get_pending_urls(urls, processed_urls'),
             PendingPos(urls, processed_urls'))
    /\ UNCHANGED <<urls, resume, interrupted, result, attempt, sleeps, tried, audio,
                   disk, tmp, exc, prev>>

\* resume, and the file holds JSON that is not an object of the expected
\* fields: data.get / set(...) raise AttributeError / TypeError, which
\* load() does not catch (it catches json.JSONDecodeError and IOError).
LoadRaises ==
    /\ pc = "load"
    /\ resume
    /\ disk.kind = "badshape"
    /\ pc' = "raised"
    /\ exc' = "load"
    /\ UNCHANGED <<urls, resume, processed_urls, results, failed_urls,
                   interrupted, urls_to_process, pos, idx, result, attempt,
                   sleeps, tried, audio, disk, tmp, loaded, ret, prev>>

\* cli.py 102-106: the loop ends, breaks on the flag, or starts the next item
\* (process_url builds its result record, cli.py 43-48).
LoopExhausted ==
    /\ pc = "loop"
    /\ idx = Len(urls_to_process)
    /\ pc' = "returned"
    /\ ret' = results
    /\ UNCHANGED <<urls, resume, processed_urls, results, failed_urls,
                   interrupted, urls_to_process, pos, idx, result, attempt,
                   sleeps, tried, audio, disk, tmp, loaded, exc, prev>>

\* The loop with the bug of breaking whether or not the flag is set.
LoopBreakWithoutFlag ==
    /\ pc = "loop"
    /\ idx < Len(urls_to_process)
    /\ pc' = "returned"
    /\ ret' = results
    /\ prev' = NoPrev
    /\ UNCHANGED <<urls, resume, processed_urls, results, failed_urls,
                   interrupted, urls_to_process, pos, idx, result, attempt,
                   sleeps, tried, audio, disk, tmp, loaded, exc>>

LoopBreak ==
    /\ pc = "loop"
    /\ idx < Len(urls_to_process)
    /\ interrupted
    /\ pc' = "returned"
    /\ ret' = results
    /\ prev' = NoPrev
    /\ UNCHANGED <<urls, resume, processed_urls, results, failed_urls,
                   interrupted, urls_to_process, pos, idx, result, attempt,
                   sleeps, tried, audio, disk, tmp, loaded, exc>>

\* The loop with the bug of not looking at the flag.
LoopStartItemIgnoringFlag ==
    /\ pc = "loop"
    /\ idx < Len(urls_to_process)
    /\ idx' = idx + 1
    /\ result' = [url |-> urls_to_process[idx + 1], status |-> "success", error |-> ""]
    /\ pc' = "metadata"
    /\ prev' = NoPrev
    /\ UNCHANGED <<urls, resume, processed_urls, results, failed_urls,
                   interrupted, urls_to_process, pos, attempt, sleeps, tried, audio,
                   disk, tmp, loaded, ret, exc>>

LoopStartItem ==
    /\ pc = "loop"
    /\ idx < Len(urls_to_process)
    /\ ~interrupted
    /\ idx' = idx + 1
    /\ result' = [url |-> urls_to_process[idx + 1], status |-> "success", error |-> ""]
    /\ pc' = "metadata"
    /\ prev' = NoPrev
    /\ UNCHANGED <<urls, resume, processed_urls, results, failed_urls,
                   interrupted, urls_to_process, pos, attempt, sleeps, tried, audio,
                   disk, tmp, loaded, ret, exc>>

\* -------------------------------------------------------------- process_url
\* The item fails at the current stage: cli.py 53-55, 61-63, 69-70.
Fail(reason) == [result EXCEPT !.status = "failed", !.error = reason]

\* process_url with the bug of going on to the download after the metadata
\* stage failed.
ExtractMetadataWithoutReturn ==
    /\ pc = "metadata"
    /\ \E ok \in BOOLEAN :
          result' = IF ok THEN result ELSE Fail("metadata")
    /\ pc' = "download"
    /\ attempt' = 0
    /\ sleeps' = <<>>
    /\ tried' = <<>>
    /\ UNCHANGED <<urls, resume, processed_urls, results, failed_urls,
                   interrupted, urls_to_process, pos, idx, audio, disk, tmp,
                   loaded, ret, exc, prev>>

\* cli.py 50-56: MetadataExtractor.extract returns a record or {"error": ...}
\* (it catches every exception).
ExtractMetadata ==
    /\ pc = "metadata"
    /\ \E ok \in BOOLEAN :
          IF ok
             THEN /\ pc' = "download"
                  /\ result' = result
             ELSE /\ pc' = "mark"
                  /\ result' = Fail("metadata")
    /\ attempt' = 0
    /\ sleeps' = <<>>
    /\ tried' = <<>>
    /\ UNCHANGED <<urls, resume, processed_urls, results, failed_urls,
                   interrupted, urls_to_process, pos, idx, audio, disk, tmp,
                   loaded, ret, exc, prev>>

\* The outcomes of one attempt of download_audio (downloader.py 51-73):
\* the file is there, ydl.download returns without the file, DownloadError
\* with "Private video" / "Video unavailable", any other DownloadError, any
\* other exception.
AttemptOutcomes == {"file", "nofile", "terminal", "download_error", "exception"}

\* The classification with the bug of retrying a private / unavailable video.
RetryableWithTerminal(o) == o \in {"terminal", "download_error", "exception"}

\* downloader.py 62-73: the failures that are retried while attempts are
\* left: a DownloadError that is not private / unavailable, and any other
\* exception.
Retryable(o) == o \in {"download_error", "exception"}

\* A delay that grows by a constant step instead of doubling.
BackoffLinear(k) == 2 * k

\* 2 ** attempt
Backoff(k) == 2 ^ k

\* downloader.py 55-58, 63, 67, 73, 75: download_audio returns (path, error).
\* The messages of 67 and 73 are followed by the text of the exception.
DownloadReturn(o) ==
    /\ attempt' = attempt
    /\ sleeps' = sleeps
    /\ IF o = "file"
          THEN /\ audio' = audio \cup {result.url}
               /\ result' = result
               /\ pc' = "transcribe"
          ELSE /\ audio' = audio
               /\ result' = Fail(CASE o = "nofile" -> "Audio file not created"
                                   [] o = "terminal" -> "Video is private or unavailable"
                                   [] o = "download_error" -> "Download failed"
                                   [] o = "exception" -> "Unexpected error"
                                   [] OTHER -> "Max retries exceeded")
               /\ pc' = "mark"

\* downloader.py 64-66, 70-72: sleep and go to the next attempt.
DownloadRetry ==
    /\ sleeps' = Append(sleeps, Backoff(attempt))
    /\ attempt' = attempt + 1
    /\ UNCHANGED <<audio, result, pc>>

\* One iteration of the loop of download_audio (downloader.py 50-73), or the
\* statement after the loop (75) when range(max_retries) is used up.
DownloadAttempt ==
    /\ pc = "download"
    /\ IF attempt < max_retries
          THEN \E o \in AttemptOutcomes :
                  /\ tried' = Append(tried, o)
                  /\ IF Retryable(o) /\ attempt < max_retries - 1
                        THEN DownloadRetry
                        ELSE DownloadReturn(o)
          ELSE /\ tried' = tried
               /\ DownloadReturn("exhausted")
    /\ UNCHANGED <<urls, resume, processed_urls, results, failed_urls,
                   interrupted, urls_to_process, pos, idx, disk, tmp, loaded,
                   ret, exc, prev>>

\* process_url with the bug of cleaning up only after a transcription that
\* succeeded (no finally clause).
TranscribeWithoutFinally ==
    /\ pc = "transcribe"
    /\ \E ok \in BOOLEAN :
          IF ok
             THEN /\ result' = result
                  /\ pc' = "cleanup_audio"
             ELSE /\ result' = Fail("Transcription failed")
                  /\ pc' = "mark"
    /\ attempt' = 0
    /\ sleeps' = <<>>
    /\ tried' = <<>>
    /\ UNCHANGED <<urls, resume, processed_urls, results, failed_urls,
                   interrupted, urls_to_process, pos, idx, audio, disk, tmp,
                   loaded, ret, exc, prev>>

\* cli.py 65-72: WhisperTranscriber.transcribe returns a transcript or a
\* record with "error" (it catches every exception); either way the finally
\* clause is next.
Transcribe ==
    /\ pc = "transcribe"
    /\ \E ok \in BOOLEAN :
          result' = IF ok THEN result ELSE Fail("Transcription failed")
    /\ pc' = "cleanup_audio"
    /\ attempt' = 0
    /\ sleeps' = <<>>
    /\ tried' = <<>>
    /\ UNCHANGED <<urls, resume, processed_urls, results, failed_urls,
                   interrupted, urls_to_process, pos, idx, audio, disk, tmp,
                   loaded, ret, exc, prev>>

\* downloader.py 100-106: TikTokDownloader.cleanup removes the file, or
\* os.remove raises OSError, which is swallowed, and the file stays.
downloader_cleanup(url) ==
    \/ audio' = audio \ {url}
    \/ /\ url \in audio
       /\ audio' = audio

\* cli.py 73-77: the finally clause, then process_url returns the result.
CleanupAudio ==
    /\ pc = "cleanup_audio"
    /\ downloader_cleanup(result.url)
    /\ pc' = "mark"
    /\ UNCHANGED <<urls, resume, processed_urls, results, failed_urls,
                   interrupted, urls_to_process, pos, idx, result, attempt,
                   sleeps, tried, disk, tmp, loaded, ret, exc, prev>>

\* ------------------------------------------------- mark_success, mark_failed
\* mark_success with the bug of not adding the URL to processed_urls.
mark_success_without_add(url, r) ==
    /\ processed_urls' = processed_urls
    /\ results' = Append(results, r)
    /\ failed_urls' = failed_urls

\* progress.py 53-57: mark_success, up to the call of save.
mark_success(url, r) ==
    /\ processed_urls' = processed_urls \cup {url}
    /\ results' = Append(results, r)
    /\ failed_urls' = failed_urls

\* progress.py 59-68: mark_failed, up to the call of save.
mark_failed(url, error) ==
    /\ processed_urls' = processed_urls \cup {url}
    /\ failed_urls' = [u \in DOMAIN failed_urls \cup {url} |->
                          IF u = url THEN error ELSE failed_urls[u]]
    /\ results' = Append(results, [url |-> url, status |-> "failed", error |-> error])

\* save with the bug of writing the checkpoint file in place.
OpenInPlace ==
    /\ disk' = Partial
    /\ tmp' = tmp
    /\ pc' = "save_write"
    /\ exc' = exc

\* progress.py 49: open(temp_file, "w") creates or truncates the temporary
\* file, or raises.
OpenTemp ==
    /\ disk' = disk
    /\ \/ /\ tmp' = Partial
          /\ pc' = "save_write"
          /\ exc' = exc
       \/ /\ tmp' = tmp
          /\ pc' = "raised"
          /\ exc' = "save"

\* cli.py 108-111 and the start of save (progress.py 40-49): the outcome of
\* process_url is recorded in memory and the temporary file is opened.
Mark ==
    /\ pc = "mark"
    /\ IF result.status = "success"
          THEN mark_success(result.url, result)
          ELSE mark_failed(result.url, result.error)
    /\ OpenTemp
    /\ result' = NoResult
    /\ attempt' = 0
    /\ sleeps' = <<>>
    /\ tried' = <<>>
    /\ UNCHANGED <<urls, resume, interrupted, urls_to_process, pos, idx, audio,
                   loaded, ret, prev>>

\* progress.py 49-50: json.dump writes the whole document and the file is
\* closed, or the write fails part way and the exception leaves save.
SaveWrite ==
    /\ pc = "save_write"
    /\ \/ /\ tmp' = CheckpointData
          /\ pc' = "save_replace"
          /\ exc' = exc
       \/ /\ tmp' = Partial
          /\ pc' = "raised"
          /\ exc' = "save"
    /\ UNCHANGED <<urls, resume, processed_urls, results, failed_urls,
                   interrupted, urls_to_process, pos, idx, result, attempt,
                   sleeps, tried, audio, disk, loaded, ret, prev>>

\* save with the bug of leaving out the os.replace.
SaveWithoutReplace ==
    /\ pc = "save_replace"
    /\ pc' = "loop"
    /\ UNCHANGED <<urls, resume, processed_urls, results, failed_urls,
                   interrupted, urls_to_process, pos, idx, result, attempt,
                   sleeps, tried, audio, disk, tmp, loaded, ret, exc, prev>>

\* progress.py 51: os.replace moves the temporary file over the checkpoint
\* in one step, or raises and moves nothing.  cli.py 113-114 change nothing.
SaveReplace ==
    /\ pc = "save_replace"
    /\ \/ /\ disk' = tmp
          /\ tmp' = Absent
          /\ pc' = "loop"
          /\ exc' = exc
       \/ /\ UNCHANGED <<disk, tmp>>
          /\ pc' = "raised"
          /\ exc' = "save"
    /\ UNCHANGED <<urls, resume, processed_urls, results, failed_urls,
                   interrupted, urls_to_process, pos, idx, result, attempt,
                   sleeps, tried, audio, loaded, ret, prev>>

\* ---------------------------------------------------------------- main, end
\* process_batch has returned with every item of urls_to_process done.
Complete ==
    /\ pc \in {"returned", "report"} \/ (pc = "raised" /\ exc = "save_output")
    /\ idx = Len(urls_to_process)

\* How a process that ends at this state is remembered.
Ended(how) ==
    [end |-> how,
     i |-> IF how = "killed_after_save" THEN pos[idx] ELSE 0,
     processed |-> IF how = "killed_after_save" THEN processed_urls ELSE {},
     ret |-> IF how = "complete" THEN ret ELSE <<>>]

\* A leftover temporary file is never read: the next save truncates it.
Leftover == IF tmp = Absent THEN Absent ELSE [kind |-> "leftover"]

\* cli.py 132-141: the counts of the report save_output writes for a list
\* of results.
save_output(rs) ==
    LET successful == Cardinality({k \in 1..Len(rs) : rs[k].status = "success"})
    IN  [total_videos |-> Len(rs),
         successful |-> successful,
         failed |-> Len(rs) - successful]

\* cli.py 209-216: save_output writes the report (or raises), the summary is
\* printed.
SaveOutput ==
    /\ pc = "returned"
    /\ \/ /\ pc' = "report"
          /\ exc' = exc
       \/ /\ pc' = "raised"
          /\ exc' = "save_output"
    /\ prev' = NoPrev
    /\ UNCHANGED <<urls, resume, processed_urls, results, failed_urls,
                   interrupted, urls_to_process, pos, idx, result, attempt,
                   sleeps, tried, audio, disk, tmp, loaded, ret>>

\* progress.py 88-94: ProgressTracker.cleanup removes the file if it exists;
\* an OSError of os.remove is ignored.
cleanup ==
    \/ disk' = Absent
    \/ /\ disk.kind # "absent"
       /\ disk' = disk

\* main with the bug of removing the checkpoint whatever the flag says.
MainCleanupIgnoringFlag ==
    /\ pc = "report"
    /\ cleanup
    /\ prev' = Ended(IF Complete THEN "complete" ELSE "other")
    /\ pc' = "idle"
    /\ NoProcess
    /\ tmp' = Leftover
    /\ urls' = urls

\* cli.py 218-220 and the end of the process: the checkpoint is removed if
\* the flag is not set.
MainCleanup ==
    /\ pc = "report"
    /\ IF ~interrupted THEN cleanup ELSE disk' = disk
    /\ prev' = Ended(IF Complete THEN "complete" ELSE "other")
    /\ pc' = "idle"
    /\ NoProcess
    /\ tmp' = Leftover
    /\ urls' = urls

\* An uncaught exception ends the process.
Abort ==
    /\ pc = "raised"
    /\ prev' = Ended(IF Complete THEN "complete" ELSE "other")
    /\ pc' = "idle"
    /\ NoProcess
    /\ tmp' = Leftover
    /\ UNCHANGED <<urls, disk>>

\* ------------------------------------------------------------- environment
\* The process is killed (SIGKILL, power loss of the process): its memory is
\* gone, the files stay as they are.  Killed at the top of the loop after at
\* least one item, it dies right after that item's save.
Kill ==
    /\ pc \notin {"idle", "raised"}
    /\ prev' = Ended(CASE pc = "loop" /\ idx >= 1 -> "killed_after_save"
                        [] Complete -> "complete"
                        [] OTHER -> "other")
    /\ pc' = "idle"
    /\ NoProcess
    /\ tmp' = Leftover
    /\ UNCHANGED <<urls, disk>>

\* cli.py 35-39: SIGINT arrives while the handler is installed.
Signal ==
    /\ pc \notin {"idle", "raised"}
    /\ ~interrupted
    /\ interrupted' = TRUE
    /\ UNCHANGED <<urls, resume, pc, processed_urls, results, failed_urls,
                   urls_to_process, pos, idx, result, attempt, sleeps, tried, audio,
                   disk, tmp, loaded, ret, exc, prev>>

Next ==
    \/ StartRun
    \/ Tamper
    \/ LoadSkip
    \/ LoadFalse
    \/ LoadTrue
    \/ LoadRaises
    \/ LoopExhausted
    \/ LoopBreak
    \/ LoopStartItem
    \/ ExtractMetadata
    \/ DownloadAttempt
    \/ Transcribe
    \/ CleanupAudio
    \/ Mark
    \/ SaveWrite
    \/ SaveReplace
    \/ SaveOutput
    \/ MainCleanup
    \/ Abort
    \/ Kill
    \/ Signal

Spec == Init /\ [][Next]_vars

\* ------------------------------------------------------------------ claims
\* The outcomes the checkpoint file holds (none if there is no readable one).
DiskResults == IF disk.kind = "state" THEN disk.results ELSE <<>>

DiskProcessed == IF disk.kind = "state" THEN Range(disk.processed) ELSE {}

\* The indices of the outcomes a sequence of results holds for URL u.
OutcomesOf(rs, u) == {k \in 1..Len(rs) : rs[k].url = u}

IsPrefix(s, t) == Len(s) <= Len(t) /\ SubSeq(t, 1, Len(s)) = s

\* C1: in every state of every run the tracker satisfies: every key of
\* failed_urls is in processed_urls, every URL with a success outcome is in
\* processed_urls, and processed_urls has as many elements as results has
\* entries.
C1_ProgressStateInvariant ==
    /\ DOMAIN failed_urls \subseteq processed_urls
    /\ \A k \in 1..Len(results) :
          results[k].status = "success" => results[k].url \in processed_urls
    /\ Cardinality(processed_urls) = Len(results)

\* The process has just decided what to process, on resume, and the process
\* before it was killed right after the save of the item at position prev.i.
ResumedAfterKill ==
    /\ prev.end = "killed_after_save"
    /\ resume
    /\ pc \in {"loop", "returned"}
    /\ idx = 0

\* The positions from i + 1 to n, in order.
After(i, n) == [k \in 1..(n - i) |-> i + k]

\* C2 (as claimed): killed right after the save of item i, the resumed run
\* processes exactly the items i+1..n of the list.
C2_ResumeRunsExactlyTheRest ==
    ResumedAfterKill => pos = After(prev.i, Len(urls))

\* C2 (amended): killed right after the save of item i, the resumed run
\* processes exactly those of the items i+1..n whose URL is not in the
\* processed set the killed process had saved, in input order, and none of
\* the items 1..i.
C2_ResumeRunsTheUnprocessedRest ==
    ResumedAfterKill =>
        /\ pos = SelectSeq(After(prev.i, Len(urls)),
                           LAMBDA k : urls[k] \notin prev.processed)
        /\ urls_to_process = [k \in 1..Len(pos) |-> urls[pos[k]]]
        /\ \A k \in 1..prev.i : urls[k] \in prev.processed

C2_Witness ==
    /\ ResumedAfterKill
    /\ pc = "loop"
    /\ pos = After(prev.i, Len(urls))
    /\ pos # <<>>

\* C3: in every step of a save the checkpoint file stays as it was or
\* becomes the complete new document; it stays as it was while the temporary
\* file is opened and written, and when the rename raises; it is never a
\* partly written file.
C3_AtomicCheckpoint ==
    [][/\ pc \in {"mark", "save_write"} => disk' = disk
       /\ pc = "save_replace" => (disk' = disk \/ disk' = CheckpointData)
       /\ (pc = "save_replace" /\ pc' = "raised") => disk' = disk
       /\ disk'.kind # "partial"]_vars

\* The rename failed: the new document is in the temporary file, the
\* checkpoint still holds the previous one.
C3_Witness ==
    /\ pc = "raised"
    /\ exc = "save"
    /\ tmp.kind = "state"
    /\ disk.kind = "state"
    /\ Len(tmp.results) = Len(disk.results) + 1

\* C4: when a stage of an item runs after another item of this run got its
\* outcome, and at the top of the loop after an item, the checkpoint file
\* holds the whole tracker state; during the save of an item all earlier
\* outcomes are in the file, so a crash loses at most the outcome in flight.
C4_DurabilityBoundary ==
    /\ (pc \in {"metadata", "download", "transcribe", "cleanup_audio", "mark"} /\ idx >= 2)
          => disk = CheckpointData
    /\ (pc = "loop" /\ idx >= 1) => disk = CheckpointData
    /\ (pc \in {"save_write", "save_replace"} /\ idx >= 2)
          => /\ disk.kind = "state"
             /\ disk.results = SubSeq(results, 1, Len(results) - 1)

C4_Witness ==
    /\ pc = "metadata"
    /\ idx = 2
    /\ disk.kind = "state"
    /\ Len(disk.results) >= 1
    /\ disk.results[Len(disk.results)].url = urls_to_process[1]

\* The process has just decided what to process, on resume, and in the
\* process before it process_batch had returned with every item done.
ResumedAfterComplete ==
    /\ prev.end = "complete"
    /\ resume
    /\ pc \in {"loop", "returned"}
    /\ idx = 0

\* C5 (as claimed): after a complete run, a run with resume processes no
\* item and returns the outcome sequence the first run returned.
C5_IdempotentResume ==
    ResumedAfterComplete =>
        /\ urls_to_process = <<>>
        /\ pc = "returned"
        /\ ret = prev.ret

\* C5 (amended): the same, when the second run finds and loads the
\* checkpoint the first run left (main removes it after a complete run that
\* was not interrupted).
C5_IdempotentResumeWhileCheckpointExists ==
    (ResumedAfterComplete /\ loaded) =>
        /\ urls_to_process = <<>>
        /\ pc = "returned"
        /\ ret = prev.ret

C5_Witness ==
    /\ ResumedAfterComplete
    /\ loaded
    /\ pc = "returned"
    /\ Len(ret) = Len(urls)

\* C6: when process_batch returns and the flag was never set, every URL of
\* the input has exactly one recorded outcome, and processed_urls has as
\* many elements as the input has distinct URLs.
C6_OneOutcomePerItem ==
    (pc = "returned" /\ ~interrupted) =>
        /\ \A u \in Range(urls) : Cardinality(OutcomesOf(results, u)) = 1
        /\ Cardinality(processed_urls) = Cardinality(Range(urls))

\* C7 (as claimed): what process_batch returns is exactly what the
\* checkpoint file holds, and every item that was not started is pending
\* for a later resume.
C7_ReturnedIsCheckpointAndRestPending ==
    pc = "returned" =>
        /\ ret = DiskResults
        /\ \A k \in (idx + 1)..Len(urls_to_process) :
              urls_to_process[k] \notin DiskProcessed

\* What C7 says of a state in which process_batch has returned: every item
\* that was started has its outcome in the returned sequence and in the
\* checkpoint file; the returned sequence is what the file holds if this run
\* recorded an outcome or loaded the file, and is empty otherwise; an item
\* that was not started and has no outcome in the file is not in the file's
\* processed set.
C7_AtReturn ==
    pc = "returned" =>
        /\ \A k \in 1..idx :
              /\ OutcomesOf(ret, urls_to_process[k]) # {}
              /\ OutcomesOf(DiskResults, urls_to_process[k]) # {}
        /\ IF idx >= 1 \/ loaded THEN ret = DiskResults ELSE ret = <<>>
        /\ \A k \in (idx + 1)..Len(urls_to_process) :
              OutcomesOf(DiskResults, urls_to_process[k]) = {}
                  => urls_to_process[k] \notin DiskProcessed

\* C7 (amended): process_batch returns only from the top of the loop (or
\* before the loop), never from inside an item; once the flag is set no
\* further item is started; and C7_AtReturn.
C7_CooperativeInterruption ==
    /\ [](C7_AtReturn)
    /\ [][/\ (pc' = "returned" /\ pc # "returned") => pc \in {"load", "loop"}
          /\ (interrupted /\ pc' # "idle") => idx' = idx]_vars

\* Interrupted while items were left: the items started were finished and
\* saved, their outcomes are returned, the loop stopped before the next.
C7_Witness ==
    /\ pc = "returned"
    /\ interrupted
    /\ idx >= 1
    /\ idx < Len(urls_to_process)
    /\ ret = DiskResults
    /\ Len(ret) = idx

\* C8: in a run started with resume, the outcome sequence only grows at its
\* end, in memory and in the checkpoint file, and an outcome is never
\* recorded for a URL that already has one.
C8_AppendOnlyLog ==
    [][(resume /\ pc # "load" /\ pc' # "idle") =>
          /\ IsPrefix(results, results')
          /\ (disk.kind = "state" /\ loaded) => IsPrefix(disk.results, DiskResults')
          /\ results' # results =>
                OutcomesOf(results, results'[Len(results')].url) = {}]_vars

\* C9: load on a checkpoint file that is not a readable checkpoint does not
\* raise and leaves the tracker empty; process_batch then processes the
\* whole list.
C9_CorruptCheckpointIsAbsent ==
    (resume /\ idx = 0 /\ pc \in {"loop", "returned", "raised"}
        /\ disk.kind \in {"garbage", "partial", "badshape"}) =>
        /\ ~(pc = "raised" /\ exc = "load")
        /\ ~loaded
        /\ processed_urls = {}
        /\ results = <<>>
        /\ failed_urls = EmptyMap
        /\ urls_to_process = urls

\* C10: the only exception that leaves process_batch is one raised by save;
\* a run that returns without the flag set has given every item of
\* urls_to_process its outcome.
C10_OnlySaveErrorsEndTheBatch ==
    /\ (pc = "raised" /\ exc # "save_output") => exc = "save"
    /\ (pc = "returned" /\ ~interrupted) => idx = Len(urls_to_process)

\* ------------------------------------------------------- claims: retries
\* download_audio has just returned a failure to process_url after every
\* one of its max_retries attempts failed with a retryable error.
ExhaustedRetries ==
    /\ pc = "mark"
    /\ Len(tried) = max_retries
    /\ \A k \in 1..Len(tried) : tried[k] \in {"download_error", "exception"}

\* C11: when every one of the max_retries attempts of download_audio fails
\* with a retryable error, the reason returned is "Max retries exceeded".
C11_RetryExhaustionReason ==
    ExhaustedRetries => result.error = "Max retries exceeded"

\* C12: download_audio never makes more than max_retries attempts; the
\* sleep between attempt k and attempt k+1 (0-based) is 2^k; when every
\* attempt fails with a retryable error there are exactly max_retries
\* attempts, the delays are non-decreasing, and no sleep follows the last
\* attempt (one sleep fewer than attempts).
C12_BackoffBound ==
    /\ Len(tried) <= max_retries
    /\ pc = "download" => /\ attempt = Len(tried)
                          /\ sleeps = [k \in 1..Len(tried) |-> 2 ^ (k - 1)]
    /\ (pc = "mark" /\ tried # <<>>
           /\ \A k \in 1..Len(tried) : tried[k] \in {"download_error", "exception"}) =>
          /\ Len(tried) = max_retries
          /\ sleeps = [k \in 1..(max_retries - 1) |-> 2 ^ (k - 1)]
          /\ \A k \in 1..(Len(sleeps) - 1) : sleeps[k] <= sleeps[k + 1]

\* Three retryable failures of both kinds, two sleeps.
C12_Witness ==
    /\ ExhaustedRetries
    /\ tried = <<"download_error", "exception", "download_error">>
    /\ sleeps = <<1, 2>>

\* C13: the attempt that fails with a private / unavailable error is the
\* last one, whatever its index: in the step of that attempt download_audio
\* returns the failure, without a sleep and without raising the attempt
\* index; so a terminal error is never followed by another attempt, and a
\* terminal error on the first attempt means one attempt.
C13_TerminalShortCircuit ==
    /\ [](\A k \in 1..(Len(tried) - 1) : tried[k] # "terminal")
    /\ [][(pc = "download" /\ Len(tried') = Len(tried) + 1
              /\ tried'[Len(tried')] = "terminal") =>
             /\ pc' = "mark"
             /\ result'.status = "failed"
             /\ result'.error = "Video is private or unavailable"
             /\ sleeps' = sleeps
             /\ attempt' = attempt]_vars

\* A terminal error on the second attempt: returned after the one sleep
\* that preceded that attempt.
C13_Witness ==
    /\ pc = "mark"
    /\ tried = <<"exception", "terminal">>
    /\ sleeps = <<1>>
    /\ result.error = "Video is private or unavailable"

\* ------------------------------------------------------ claims: pipeline
\* The reasons download_audio can return.
DownloadReasons ==
    {"Audio file not created", "Video is private or unavailable",
     "Download failed", "Unexpected error", "Max retries exceeded"}

\* C14: the stages of an item run in the order metadata, download,
\* transcription; a stage starts only out of the stage before it and with
\* the item still successful; a failing stage sets the item's status to
\* failed with its own reason and no later stage runs; an item reaches the
\* end of process_url as a success only through all three stages; and the
\* outcome recorded is the status and reason process_url ended with.
C14_StageOrder ==
    /\ [](pc \in {"metadata", "download", "transcribe"} => result.status = "success")
    /\ [][/\ (pc' = "metadata" /\ pc # "metadata") => pc = "loop"
          /\ (pc' = "download" /\ pc # "download") => pc = "metadata"
          /\ (pc' = "transcribe" /\ pc # "transcribe") => pc = "download"
          /\ (pc' = "cleanup_audio" /\ pc # "cleanup_audio") => pc = "transcribe"
          /\ (pc' = "mark" /\ pc # "mark") => pc \in {"metadata", "download", "cleanup_audio"}
          /\ (pc' = "mark" /\ pc = "metadata") =>
                result' = [result EXCEPT !.status = "failed", !.error = "metadata"]
          /\ (pc' = "mark" /\ pc = "download") =>
                /\ result'.status = "failed"
                /\ result'.error \in DownloadReasons
          /\ (pc' = "cleanup_audio" /\ pc = "transcribe") =>
                \/ result' = result
                \/ result' = [result EXCEPT !.status = "failed",
                                            !.error = "Transcription failed"]
          /\ (pc' = "mark" /\ pc = "cleanup_audio") => result' = result
          /\ (pc = "mark" /\ pc' \notin {"mark", "idle"}) =>
                /\ Len(results') = Len(results) + 1
                /\ results'[Len(results')].url = result.url
                /\ results'[Len(results')].status = result.status
                /\ results'[Len(results')].error = result.error]_vars

\* An item failed in the download stage: its outcome is recorded with the
\* reason of that stage.
C14_Witness ==
    /\ pc = "save_write"
    /\ results # <<>>
    /\ results[Len(results)].status = "failed"
    /\ results[Len(results)].error = "Audio file not created"

\* C15 (as claimed): outside the transcription and its cleanup no audio file
\* is held: the file of an item is gone when process_url has finished, and
\* between items none is left.
C15_ResourceReleased ==
    pc \notin {"transcribe", "cleanup_audio"} => audio = {}

\* C15 (amended): an audio file appears only when the download of the item
\* succeeds; from the transcription every path goes to the cleanup, whether
\* the transcription succeeded or not; the cleanup removes the item's file
\* or, when os.remove raises, leaves it, and process_url returns the same
\* result either way; nothing else creates or removes a file.
C15_ReleaseAttemptedOnEveryPath ==
    [][pc' # "idle" =>
          /\ (pc = "transcribe" /\ pc' # "transcribe") =>
                /\ pc' = "cleanup_audio"
                /\ audio' = audio
          /\ (pc = "cleanup_audio" /\ pc' # "cleanup_audio") =>
                /\ pc' = "mark"
                /\ result' = result
                /\ audio' \in {audio \ {result.url}, audio}
          /\ (pc' = "transcribe" /\ pc # "transcribe") =>
                audio' = audio \cup {result.url}
          /\ audio' # audio =>
                \/ pc = "download" /\ pc' = "transcribe"
                \/ pc = "cleanup_audio" /\ audio' = audio \ {result.url}]_vars

\* The transcription returned an error and the file was removed before
\* process_url returned.
C15_Witness ==
    /\ pc = "mark"
    /\ result.error = "Transcription failed"
    /\ audio = {}

\* ------------------------------------------------- claims: orchestration
\* C16: in a run that loaded a checkpoint, the items to process are the
\* input items whose URL is not in the processed set, in input order, and
\* when the run returns with the flag not set every URL of the input has a
\* single recorded outcome, also one that occurs more than once.
C16_PendingSetOnResume ==
    /\ (loaded /\ idx = 0 /\ pc \in {"loop", "returned"}) =>
          urls_to_process = SelectSeq(urls, LAMBDA u : u \notin processed_urls)
    /\ (loaded /\ pc = "returned" /\ ~interrupted) =>
          \A u \in Range(urls) : Cardinality(OutcomesOf(results, u)) = 1

\* C17: in a run without resume the list to process is the whole input, the
\* tracker starts empty whatever the checkpoint file holds (the outcomes
\* recorded and returned are those of this run's items, in order), and the
\* checkpoint file is left as it is until the save of the first item's
\* outcome replaces it.
C17_FreshRunIgnoresCheckpoint ==
    /\ []((~resume /\ pc \notin {"idle", "load"}) =>
             /\ ~loaded
             /\ urls_to_process = urls
             /\ pos = [k \in 1..Len(urls) |-> k]
             /\ Len(results) <= idx
             /\ \A k \in 1..Len(results) : results[k].url = urls[k]
             /\ processed_urls = {urls[k] : k \in 1..Len(results)}
             /\ pc \in {"returned", "report"} => ret = results)
    /\ [][(~resume /\ pc # "idle"
              /\ \/ idx = 0
                 \/ idx = 1 /\ pc \notin {"save_replace", "loop", "returned", "report"})
             => disk' = disk]_vars

\* A run without resume is about to replace a checkpoint left by an earlier
\* process with the outcome of its first item.
C17_Witness ==
    /\ ~resume
    /\ pc = "save_replace"
    /\ idx = 1
    /\ disk.kind = "state"
    /\ Len(disk.results) >= 1
    /\ Len(results) = 1

\* C18: the checkpoint file is removed only by main's last step, in a run
\* whose flag is not set and that did every item of urls_to_process; with
\* the flag set main does not touch the file; main's last step ends the
\* process without an exception whether or not the removal worked.
C18_CheckpointRemoval ==
    [][/\ (disk' = Absent /\ disk # Absent) =>
             /\ pc = "report"
             /\ ~interrupted
             /\ idx = Len(urls_to_process)
       /\ (pc = "report" /\ interrupted) => disk' = disk
       /\ (pc = "report" /\ pc' # "report") => pc' = "idle"]_vars

\* A process that did every item has ended and the checkpoint file is gone.
C18_Witness ==
    /\ pc = "idle"
    /\ prev.end = "complete"
    /\ Len(prev.ret) >= 1
    /\ disk = Absent

\* C19: after process_batch returned with the flag not set, get_stats has
\* processed = successful + failed, the report of save_output has
\* total_videos = successful + failed, and the two give the same successful
\* and failed counts.
C19_DerivedCounts ==
    (pc = "report" /\ ~interrupted) =>
        /\ get_stats.processed = get_stats.successful + get_stats.failed
        /\ save_output(ret).total_videos
              = save_output(ret).successful + save_output(ret).failed
        /\ save_output(ret).successful = get_stats.successful
        /\ save_output(ret).failed = get_stats.failed

====
